---- MODULE Spec2Model ----
(***************************************************************************)
(* Transaction-summary backend.                                            *)
(*                                                                         *)
(* src/server.js: POST /upload reads the first sheet of a workbook,        *)
(* normalises every row (RowIndex, DateOnly) and stores the dataset in     *)
(* app.locals.fileData; POST /generate filters the stored dataset by date  *)
(* range and merchants, sums per merchant, appends a TOTAL row and writes  *)
(* a two-sheet workbook to temp/output/summary_<Date.now()>.xlsx.          *)
(*                                                                         *)
(* src/unnamed/part_000: an earlier server with the dataset in the module  *)
(* variable globalData, a /generate that loops over selectedMerchants and  *)
(* writes output/filtered_output.xlsx.                                     *)
(*                                                                         *)
(* Conventions of the model                                                *)
(*   - a JavaScript value is a record [t, n, s]: t its type, n its number  *)
(*     in hundredths (fixed point), s its text as a sequence of one-char   *)
(*     strings;                                                            *)
(*   - sums and products of numbers are exact, in millionths (Micro);      *)
(*   - a time value is in minutes since 1970-01-01T00:00Z.                 *)
(***************************************************************************)
EXTENDS Integers, Sequences, FiniteSets, TLC

\* ------------------------------------------------------------------------
\* JavaScript values
\* ------------------------------------------------------------------------

Null == [t |-> "null", n |-> 0, s |-> <<>>]

NaN == [t |-> "nan", n |-> 0, s |-> <<>>]

Num(n) == [t |-> "num", n |-> n, s |-> <<>>]

Str(s) == [t |-> "str", n |-> 0, s |-> s]

\* A Date object (a date-formatted cell read with cellDates: true):
\* n is its time value in minutes.
DateObj(m) == [t |-> "date", n |-> m, s |-> <<>>]

\* ToBoolean: `!value`, `name && ...`, `row.DateOnly && ...`.
Truthy(v) ==
  CASE v.t = "null" -> FALSE
    [] v.t = "nan"  -> FALSE
    [] v.t = "num"  -> v.n # 0
    [] v.t = "str"  -> v.s # <<>>
    [] OTHER        -> TRUE

\* The characters the model's texts are written in, in UTF-16 code unit
\* order (the order of `<`, `>=` and Array.prototype.sort on strings).
Alphabet ==
  << " ", "%", "-", ".", "/",
     "0", "1", "2", "3", "4", "5", "6", "7", "8", "9",
     "A", "B", "L", "N", "O", "T", "a", "b", "d", "e", "n", "o", "t", "x" >>

CodeTable ==
  [c \in {Alphabet[i] : i \in 1..Len(Alphabet)} |->
     CHOOSE i \in 1..Len(Alphabet) : Alphabet[i] = c]

CodeOf(c) == CodeTable[c]

IsDigit(c) == c \in {"0", "1", "2", "3", "4", "5", "6", "7", "8", "9"}

DigitVal(c) == CodeOf(c) - CodeOf("0")

DigitChar(k) == Alphabet[CodeOf("0") + k]

MinOf(S) == CHOOSE x \in S : \A y \in S : x <= y

\* a < b on strings: the first differing code unit decides, a proper prefix
\* is smaller.
StrLess(a, b) ==
  LET n == IF Len(a) < Len(b) THEN Len(a) ELSE Len(b)
      d == {i \in 1..n : a[i] # b[i]}
  IN  IF d = {} THEN Len(a) < Len(b)
      ELSE CodeOf(a[MinOf(d)]) < CodeOf(b[MinOf(d)])

\* a <= b and a >= b on strings.
StrLE(a, b) == a = b \/ StrLess(a, b)

StrGE(a, b) == StrLE(b, a)

\* String.prototype.trim (the only white space of Alphabet is the blank).
RECURSIVE TrimLeft(_)
TrimLeft(s) ==
  IF s # <<>> /\ Head(s) = " " THEN TrimLeft(Tail(s)) ELSE s

RECURSIVE TrimRight(_)
TrimRight(s) ==
  IF s # <<>> /\ s[Len(s)] = " " THEN TrimRight(SubSeq(s, 1, Len(s) - 1)) ELSE s

Trim(s) == TrimRight(TrimLeft(s))

\* String.prototype.split(sep) for a one-character separator.
RECURSIVE Split(_, _)
Split(s, sep) ==
  LET hits == {i \in 1..Len(s) : s[i] = sep}
  IN  IF hits = {} THEN << s >>
      ELSE LET k == MinOf(hits)
           IN  << SubSeq(s, 1, k - 1) >> \o Split(SubSeq(s, k + 1, Len(s)), sep)

AllDigits(s) == s # <<>> /\ \A i \in 1..Len(s) : IsDigit(s[i])

\* The value of a run of decimal digits.
RECURSIVE DigitsValue(_)
DigitsValue(s) ==
  IF s = <<>> THEN 0
  ELSE 10 * DigitsValue(SubSeq(s, 1, Len(s) - 1)) + DigitVal(s[Len(s)])

\* k written with at least w digits (padStart(w, "0")), k >= 0.
RECURSIVE Pad(_, _)
Pad(k, w) ==
  IF k < 10 /\ w <= 1 THEN << DigitChar(k) >>
  ELSE Pad(k \div 10, w - 1) \o << DigitChar(k % 10) >>

\* The longest prefix of s made of digits.
RECURSIVE DigitPrefix(_)
DigitPrefix(s) ==
  IF s # <<>> /\ IsDigit(Head(s)) THEN << Head(s) >> \o DigitPrefix(Tail(s))
  ELSE <<>>

\* parseFloat of a text: optional blanks, optional sign, digits, optional
\* fraction; NaN when no digit starts it.  The result is in hundredths: a
\* third and later fraction digit is dropped (the model's texts have none).
ParseFloatText(s0) ==
  LET s    == TrimLeft(s0)
      neg  == s # <<>> /\ Head(s) = "-"
      body == IF neg THEN Tail(s) ELSE s
      ip   == DigitPrefix(body)
      rest == SubSeq(body, Len(ip) + 1, Len(body))
      fp   == IF rest # <<>> /\ Head(rest) = "."
              THEN DigitPrefix(Tail(rest)) ELSE <<>>
      f2   == SubSeq(fp \o << "0", "0" >>, 1, 2)
      mag  == 100 * DigitsValue(ip) + DigitsValue(f2)
  IN  IF ip = <<>> /\ fp = <<>> THEN NaN
      ELSE Num(IF neg THEN -mag ELSE mag)

\* parseFloat(v): ToString(v) first, so a number parses to itself and
\* null ("null") to NaN.
ParseFloat(v) ==
  CASE v.t = "num" -> v
    [] v.t = "str" -> ParseFloatText(v.s)
    [] OTHER       -> NaN

\* `parseFloat(x) || 0`, as a number in hundredths.
ParseFloatOrZero(v) ==
  LET p == ParseFloat(v) IN IF Truthy(p) THEN p.n ELSE 0

\* Number.prototype.toFixed(2) of an exact value in millionths: the nearest
\* hundredth, a tie away from zero; the result is the text's value in
\* hundredths.
ToFixed2(micro) ==
  IF micro >= 0 THEN (micro + 5000) \div 10000
  ELSE -((5000 - micro) \div 10000)

\* A number in hundredths as an exact value in millionths.
Micro(hundredths) == hundredths * 10000

\* ------------------------------------------------------------------------
\* Dates
\* ------------------------------------------------------------------------

\* Day number (days since 1970-01-01) of a proleptic Gregorian date;
\* linear in d, so a day past the month's end runs into the next month,
\* as MakeDay does.
DaysFromCivil(y, m, d) ==
  LET yy  == IF m <= 2 THEN y - 1 ELSE y
      era == yy \div 400
      yoe == yy - era * 400
      mp  == IF m > 2 THEN m - 3 ELSE m + 9
      doy == (153 * mp + 2) \div 5 + d - 1
      doe == yoe * 365 + yoe \div 4 - yoe \div 100 + doy
  IN  era * 146097 + doe - 719468

\* The date <<y, m, d>> of a day number.
CivilFromDays(z0) ==
  LET z   == z0 + 719468
      era == z \div 146097
      doe == z - era * 146097
      yoe == (doe - doe \div 1460 + doe \div 36524 - doe \div 146096) \div 365
      doy == doe - (365 * yoe + yoe \div 4 - yoe \div 100)
      mp  == (5 * doy + 2) \div 153
      d   == doy - (153 * mp + 2) \div 5 + 1
      m   == IF mp < 10 THEN mp + 3 ELSE mp - 9
      y   == yoe + era * 400 + (IF m <= 2 THEN 1 ELSE 0)
  IN  << y, m, d >>

\* date.toISOString().split('T')[0] of a time value: the UTC date as
\* YYYY-MM-DD.
IsoDate(minutes) ==
  LET c == CivilFromDays(minutes \div 1440)
  IN  Pad(c[1], 4) \o << "-" >> \o Pad(c[2], 2) \o << "-" >> \o Pad(c[3], 2)

\* The text YYYY-MM-DD of a date, as a client or a cell writes it.
IsoText(y, m, d) == Pad(y, 4) \o << "-" >> \o Pad(m, 2) \o << "-" >> \o Pad(d, 2)

\* The text DD-MM-YYYY (or any three components in that layout).
DmyText(a, b, y) == Pad(a, 2) \o << "-" >> \o Pad(b, 2) \o << "-" >> \o Pad(y, 4)

\* new Date(text).getTime() / Date.parse(text), NaN or Num(minutes) with the
\* time value in n.  tz is the server's zone, minutes east of UTC.
\*   YYYY-MM-DD with a month 1..12 and a day 1..31 is the ISO form: UTC.
\*   Any other a-b-c or a/b/c of digits goes to the engine's legacy parser:
\*   year-month-day when a cannot be a day, else month-day-year; local time.
\*   Everything else the model's texts hold is no date.
JsDateParse(text, tz) ==
  LET sep   == IF \E i \in 1..Len(text) : text[i] = "/" THEN "/" ELSE "-"
      parts == Split(text, sep)
      nums  == Len(parts) = 3 /\ \A i \in 1..3 : AllDigits(parts[i])
      a     == DigitsValue(parts[1])
      b     == DigitsValue(parts[2])
      c     == DigitsValue(parts[3])
      iso   == /\ sep = "-"
               /\ Len(parts[1]) = 4 /\ Len(parts[2]) = 2 /\ Len(parts[3]) = 2
      ymd   == a > 31
      y0    == IF ymd THEN a ELSE c
      y     == IF iso THEN y0
               ELSE IF y0 <= 49 THEN y0 + 2000
               ELSE IF y0 <= 99 THEN y0 + 1900 ELSE y0
      m     == IF ymd THEN b ELSE a
      d     == IF ymd THEN c ELSE b
  IN  IF ~nums THEN NaN
      ELSE IF ~(m \in 1..12 /\ d \in 1..31) THEN NaN
      ELSE IF iso THEN Num(DaysFromCivil(y, m, d) * 1440)
      ELSE Num(DaysFromCivil(y, m, d) * 1440 - tz)

IsNaN(v) == v.t = "nan"

\* new Date(1899, 11, 30).getTime(): local midnight.
ExcelEpoch(tz) == DaysFromCivil(1899, 12, 30) * 1440 - tz

\* (value - 1) * 86400000 ms in minutes, for value - 1 given in hundredths.
SerialMinutes(h) == (h \div 100) * 1440 + ((h % 100) * 1440) \div 100

\* The two candidate texts parseExcelDate builds from three parts.
DateFormats(parts) ==
  << parts[3] \o << "-" >> \o parts[2] \o << "-" >> \o parts[1],
     parts[3] \o << "-" >> \o parts[1] \o << "-" >> \o parts[2] >>

\* The candidates of a text for the separators '-', '/', '.', in the order
\* the two loops try them.
RECURSIVE DateCandidates(_, _)
DateCandidates(text, seps) ==
  IF seps = <<>> THEN <<>>
  ELSE LET parts == Split(text, Head(seps))
       IN  (IF Len(parts) = 3 THEN DateFormats(parts) ELSE <<>>)
           \o DateCandidates(text, Tail(seps))

\* parseExcelDate(value): a text YYYY-MM-DD, or null.
parseExcelDate(value, tz) ==
  IF ~Truthy(value) THEN Null
  ELSE IF value.t = "num"
       THEN Str(IsoDate(ExcelEpoch(tz) + SerialMinutes(value.n - 100)))
  ELSE IF value.t = "str"
       THEN LET cands == DateCandidates(value.s, << "-", "/", "." >>)
                ok    == {i \in 1..Len(cands) : ~IsNaN(JsDateParse(cands[i], tz))}
            IN  IF ok # {}
                THEN Str(IsoDate(JsDateParse(cands[MinOf(ok)], tz).n))
                ELSE IF ~IsNaN(JsDateParse(value.s, tz))
                     THEN Str(IsoDate(JsDateParse(value.s, tz).n))
                     ELSE Null
  ELSE Str(IsoDate(value.n))

\* ------------------------------------------------------------------------
\* Bounds of the model
\* ------------------------------------------------------------------------

\* Rows of an uploaded sheet.
MaxRows == 2

\* Milliseconds the clock advances.
MaxClock == 1

\* Workbooks written by /generate.
MaxGenerations == 2

\* ------------------------------------------------------------------------
\* Inputs: the server's time zone, sheet rows, workbooks, request bodies
\* ------------------------------------------------------------------------

\* Minutes east of UTC of the host the server runs on.
TimeZones == {0, 330, -300}

\* The zone of the host while requests interleave.
ConcurrentZones == {330}

MerchantA == Str(<< "A" >>)

MerchantB == Str(<< "B" >>)

\* "A" with a leading blank.
MerchantPaddedA == Str(<< " ", "A" >>)

MerchantTotal == Str(<< "T", "O", "T", "A", "L" >>)

\* A sheet row as sheet_to_json returns it: column name -> cell.
Row(date, merchant, amount, fees) ==
  ("Date" :> date) @@ ("Merchant Name" :> merchant)
    @@ ("Withdrawal Amount" :> amount) @@ ("Withdrawal Fees" :> fees)

\* The rows uploads are made of: serial, textual and unreadable dates;
\* merchants equal up to white space, named TOTAL, blank; amounts with a
\* half-cent percentage, negative, textual and not numeric; a sheet with
\* columns of its own named RowIndex and DateOnly.
RawRows ==
  { Row(Num(4500100), MerchantA, Num(50), Num(2)),
    Row(Str(DmyText(16, 3, 2023)), MerchantB, Num(50), Str(<< "1", ".", "5", "0" >>)),
    Row(Str(DmyText(15, 3, 2023)), MerchantPaddedA, Num(-1030), Null),
    Row(Str(IsoText(2023, 3, 15)), MerchantTotal, Num(10050), Str(<< "a", "b", "d" >>)),
    ("RowIndex" :> Num(700)) @@ ("DateOnly" :> Str(IsoText(2023, 3, 15)))
      @@ Row(Str(<< "n", "o", "t", " ", "a", " ", "d", "a", "t", "e" >>), Str(<< " " >>),
             Num(70), Num(1)) }

SeqsUpTo(S, n) == UNION {[1..k -> S] : k \in 0..n}

\* What xlsx.readFile finds in an uploaded file: not a workbook, a workbook
\* without sheets, or the rows of its first sheet (possibly none).
Unreadable == [kind |-> "unreadable", rows |-> <<>>]

NoSheets == [kind |-> "nosheets", rows |-> <<>>]

Sheet(rows) == [kind |-> "sheet", rows |-> rows]

Workbooks == {Sheet(rows) : rows \in SeqsUpTo(RawRows, MaxRows)}

\* The files clients upload while requests interleave.
ConcurrentBooks ==
  { Sheet(<<>>),
    Sheet(<< Row(Num(4500100), MerchantA, Num(50), Num(2)) >>),
    Sheet(<< Row(Str(DmyText(16, 3, 2023)), MerchantB, Num(50), Num(1)),
             Row(Num(4500100), MerchantA, Num(150), Num(2)) >>) }

\* The file uploaded before files are downloaded.
DownloadBooks == { Sheet(<< Row(Num(4500100), MerchantA, Num(50), Num(2)) >>) }

\* A /generate body.
Body(merchants, percentage, startDate, endDate) ==
  [selectedMerchants |-> merchants, percentage |-> percentage,
   startDate |-> startDate, endDate |-> endDate]

GenerateBodies ==
  { Body(<< MerchantA, MerchantB >>, Num(500),
         Str(IsoText(2023, 3, 14)), Str(IsoText(2023, 3, 15))),
    Body(<< MerchantB, MerchantTotal, MerchantA, MerchantPaddedA >>, Str(<< "5" >>),
         Str(IsoText(2023, 3, 1)), Str(IsoText(2023, 3, 31))),
    Body(<< MerchantB, MerchantA >>, Num(300),
         Str(IsoText(2023, 3, 31)), Str(IsoText(2023, 3, 1))),
    Body(<< MerchantA >>, Num(500),
         Str(IsoText(2024, 1, 1)), Str(IsoText(2024, 12, 31))),
    Body(<<>>, Num(500), Str(IsoText(2023, 3, 1)), Str(IsoText(2023, 3, 31))),
    Body(<< MerchantA >>, Num(10100),
         Str(IsoText(2023, 3, 1)), Str(IsoText(2023, 3, 31))),
    Body(<< MerchantA >>, Num(500), Null, Str(IsoText(2023, 3, 31))) }

\* The body sent while requests interleave.
ConcurrentBodies ==
  { Body(<< MerchantA, MerchantB >>, Num(500),
         Str(IsoText(2023, 3, 1)), Str(IsoText(2023, 3, 31))) }

\* ------------------------------------------------------------------------
\* src/server.js: state
\* ------------------------------------------------------------------------

VARIABLES
  tz,           \* the host's time zone, minutes east of UTC
  clientBook,   \* the file a client has picked to upload
  clientBody,   \* the /generate body a client has picked to send
  now,          \* Date.now(), in milliseconds since the server started
  fileData,     \* app.locals.fileData
  upl,          \* /upload requests in flight: slot -> [pc, pending, stored]
  uploadRes,    \* the last response /upload sent
  genRes,       \* the last response /generate sent, with its body
  outputDir,    \* temp/output: summary_<n>.xlsx -> workbook
  written,      \* history: the output paths /generate wrote, in order
  genSeen,      \* history: the processedData the last /generate filtered
  genFiltered,  \* history: the filteredData of that /generate
  ingested,     \* history: the sheets /upload has ingested
  lastIngested, \* history: the sheet /upload ingested last
  reported,     \* history: the datasets of the uploads answered with success
  dl,           \* /download requests in flight: slot -> [pc, file]
  dlRes,        \* the last response /download sent
  served,       \* history: generation (index in written) -> times streamed
  globalData,   \* part_000: let globalData
  legacyRes,    \* part_000: the last response /generate sent, with its body
  legacyOut,    \* part_000: output/filtered_output.xlsx and the times written
  legacySeen,   \* history: globalData as the last part_000 /generate found it
  legacyFiltered \* history: the filteredData of that /generate

vars ==
  << tz, clientBook, clientBody, now, fileData, upl, uploadRes, genRes, outputDir,
     written, genSeen, genFiltered, ingested, lastIngested, reported,
     dl, dlRes, served,
     globalData, legacyRes, legacyOut, legacySeen, legacyFiltered >>

serverVars ==
  << now, fileData, upl, uploadRes, genRes, outputDir, written, genSeen,
     genFiltered, ingested, lastIngested, reported, dl, dlRes, served >>

downloadVars == << dl, dlRes, served >>

legacyVars == << globalData, legacyRes, legacyOut, legacySeen, legacyFiltered >>

\* The /upload requests that may be in flight at once.
Slots == {"u1", "u2"}

\* app.locals.fileData before the first upload.
NoFileData == [set |-> FALSE, processedData |-> <<>>, merchants |-> <<>>]

NoResponse == [status |-> 0, error |-> "", merchants |-> <<>>, count |-> 0]

\* A slot without a request; stored is history: the rows the slot's request
\* has put in app.locals.fileData, none yet.
IdleUpload == [pc |-> "idle", pending |-> NoResponse, stored |-> <<>>]

\* res.status(code).json({success: false, error}).
UploadFailure(code, error) ==
  [status |-> code, error |-> error, merchants |-> <<>>, count |-> 0]

\* res.json({success: true, merchants, count}); firstFew, a debugging aid,
\* is left out.
UploadSuccess(merchants, count) ==
  [status |-> 200, error |-> "", merchants |-> merchants, count |-> count]

\* ------------------------------------------------------------------------
\* src/server.js: POST /upload
\* ------------------------------------------------------------------------

\* row[name], undefined (null here) for a column the row lacks.
Cell(row, name) == IF name \in DOMAIN row THEN row[name] ELSE Null

\* { ...row, RowIndex: index + 2, DateOnly: parseExcelDate(row.Date) } for
\* the row at 1-based position i (index = i - 1).
ProcessRow(row, i, zone) ==
  ("RowIndex" :> Num((i + 1) * 100))
    @@ ("DateOnly" :> parseExcelDate(Cell(row, "Date"), zone))
    @@ row

\* rawData.map(...).filter(row => row !== null): the callback cannot throw
\* (parseExcelDate catches its own errors), so no row is dropped.
ProcessRows(rawData, zone) ==
  [i \in 1..Len(rawData) |-> ProcessRow(rawData[i], i, zone)]

\* name && typeof name === 'string' && name.trim() !== ''
IsMerchantName(name) ==
  Truthy(name) /\ name.t = "str" /\ Trim(name.s) # <<>>

\* Array.prototype.sort() of distinct strings.
RECURSIVE SortStrings(_)
SortStrings(S) ==
  IF S = {} THEN <<>>
  ELSE LET m == CHOOSE x \in S : \A y \in S : StrLE(x.s, y.s)
       IN  << m >> \o SortStrings(S \ {m})

\* [...new Set(processedData.map(name).filter(...))].sort()
ExtractMerchants(processedData) ==
  SortStrings({ Cell(processedData[i], "Merchant Name") :
                  i \in { j \in 1..Len(processedData) :
                            IsMerchantName(Cell(processedData[j], "Merchant Name")) } })

\* Mutant: the new rows are appended to the rows already held.
StoreFileDataMerged(old, processedData, merchants) ==
  [set |-> TRUE, processedData |-> old.processedData \o processedData,
   merchants |-> merchants]

\* Mutant: a dataset already held is kept.
StoreFileDataOnce(old, processedData, merchants) ==
  IF old.set THEN old
  ELSE [set |-> TRUE, processedData |-> processedData, merchants |-> merchants]

\* req.app.locals.fileData = { originalName, processedData, merchants,
\* uploadTime }: the whole object is replaced.  originalName and uploadTime,
\* which no handler reads, are left out.
StoreFileData(old, processedData, merchants) ==
  [set |-> TRUE, processedData |-> processedData, merchants |-> merchants]

\* A request arrives without a file: 400 NO_FILE.
UploadNoFile(s) ==
  /\ upl[s].pc = "idle"
  /\ uploadRes' = UploadFailure(400, "NO_FILE")
  /\ UNCHANGED << tz, clientBook, clientBody, now, fileData, upl, genRes, outputDir,
                  written, genSeen, genFiltered, ingested, lastIngested, reported,
                  downloadVars, legacyVars >>

\* A request arrives with a file and waits for fs.access.
UploadRequest(s) ==
  /\ upl[s].pc = "idle"
  /\ upl' = [upl EXCEPT ![s] = [pc |-> "access", pending |-> NoResponse,
                                stored |-> <<>>]]
  /\ UNCHANGED << tz, clientBook, clientBody, now, fileData, uploadRes, genRes, outputDir,
                  written, genSeen, genFiltered, ingested, lastIngested, reported,
                  downloadVars, legacyVars >>

\* fs.access rejects: 500 FILE_ACCESS_ERROR.
UploadAccessFails(s) ==
  /\ upl[s].pc = "access"
  /\ upl' = [upl EXCEPT ![s] = IdleUpload]
  /\ uploadRes' = UploadFailure(500, "FILE_ACCESS_ERROR")
  /\ UNCHANGED << tz, clientBook, clientBody, now, fileData, genRes, outputDir,
                  written, genSeen, genFiltered, ingested, lastIngested, reported,
                  downloadVars, legacyVars >>

\* fs.access resolves; the handler runs without a break to its next await,
\* the fs.unlink of the branch it takes.  The file's content is what
\* xlsx.readFile finds in it.
UploadRead(s, book) ==
  /\ upl[s].pc = "access"
  /\ CASE book.kind = "unreadable" ->
            /\ upl' = [upl EXCEPT ![s] = [pc |-> "unlink",
                         pending |-> UploadFailure(400, "INVALID_EXCEL"),
                         stored  |-> <<>>]]
            /\ UNCHANGED << fileData, ingested, lastIngested >>
       [] book.kind = "nosheets" ->
            /\ upl' = [upl EXCEPT ![s] = [pc |-> "unlink",
                         pending |-> UploadFailure(400, "NO_SHEETS"),
                         stored  |-> <<>>]]
            /\ UNCHANGED << fileData, ingested, lastIngested >>
       [] book.kind = "sheet" /\ book.rows = <<>> ->
            /\ upl' = [upl EXCEPT ![s] = [pc |-> "unlink",
                         pending |-> UploadFailure(400, "NO_DATA"),
                         stored  |-> <<>>]]
            /\ UNCHANGED << fileData, ingested, lastIngested >>
       [] OTHER ->
            LET processedData == ProcessRows(book.rows, tz)
                merchants     == ExtractMerchants(processedData)
            IN  /\ fileData' = StoreFileData(fileData, processedData, merchants)
                /\ ingested' = ingested \cup {book.rows}
                /\ lastIngested' = book.rows
                /\ upl' = [upl EXCEPT ![s] = [pc |-> "unlink",
                             pending |-> UploadSuccess(merchants, Len(processedData)),
                             stored  |-> processedData]]
  /\ UNCHANGED << tz, clientBook, clientBody, now, uploadRes, genRes, outputDir,
                  written, genSeen, genFiltered, reported,
                  downloadVars, legacyVars >>

\* fs.unlink resolves: the branch's response is sent.
UploadRespond(s) ==
  /\ upl[s].pc = "unlink"
  /\ uploadRes' = upl[s].pending
  /\ reported' = IF upl[s].pending.status = 200
                 THEN reported \cup {upl[s].stored} ELSE reported
  /\ upl' = [upl EXCEPT ![s] = IdleUpload]
  /\ UNCHANGED << tz, clientBook, clientBody, now, fileData, genRes, outputDir,
                  written, genSeen, genFiltered, ingested, lastIngested,
                  downloadVars, legacyVars >>

\* fs.unlink rejects: the outer catch unlinks again, swallowing the error,
\* and answers 500 PROCESSING_ERROR.
UploadUnlinkFails(s) ==
  /\ upl[s].pc = "unlink"
  /\ uploadRes' = UploadFailure(500, "PROCESSING_ERROR")
  /\ upl' = [upl EXCEPT ![s] = IdleUpload]
  /\ UNCHANGED << tz, clientBook, clientBody, now, fileData, genRes, outputDir,
                  written, genSeen, genFiltered, ingested, lastIngested, reported,
                  downloadVars, legacyVars >>

\* ------------------------------------------------------------------------
\* src/server.js: POST /generate
\* ------------------------------------------------------------------------

\* Date.parse(v) of a body field; the bodies hold texts or null.
DateParse(v, zone) == IF v.t = "str" THEN JsDateParse(v.s, zone) ELSE NaN

\* selectedMerchants.includes(x)
Includes(list, x) == \E i \in 1..Len(list) : list[i] = x

\* Mutant: the end of the range is exclusive.
PassesFilterEndExclusive(row, body) ==
  /\ Truthy(Cell(row, "DateOnly"))
  /\ StrGE(Cell(row, "DateOnly").s, body.startDate.s)
  /\ StrLess(Cell(row, "DateOnly").s, body.endDate.s)
  /\ Includes(body.selectedMerchants, Cell(row, "Merchant Name"))

\* The filter callback of /generate.
PassesFilter(row, body) ==
  /\ Truthy(Cell(row, "DateOnly"))
  /\ StrGE(Cell(row, "DateOnly").s, body.startDate.s)
  /\ StrLE(Cell(row, "DateOnly").s, body.endDate.s)
  /\ Includes(body.selectedMerchants, Cell(row, "Merchant Name"))

\* Array.prototype.filter
RECURSIVE FilterRows(_, _)
FilterRows(rows, body) ==
  IF rows = <<>> THEN <<>>
  ELSE (IF PassesFilter(Head(rows), body) THEN << Head(rows) >> ELSE <<>>)
       \o FilterRows(Tail(rows), body)

\* One pass of filteredData.forEach: the row is added to its merchant's
\* entry of summaryMap, a new entry going to the end (a Map keeps insertion
\* order).  Amounts are exact, in millionths; percent is in hundredths.
Accumulate(map, row, percent) ==
  LET merchant      == Cell(row, "Merchant Name")
      withdrawal    == ParseFloatOrZero(Cell(row, "Withdrawal Amount"))
      fee           == ParseFloatOrZero(Cell(row, "Withdrawal Fees"))
      percentAmount == withdrawal * percent
      has           == \E i \in 1..Len(map) : map[i].merchant = merchant
      map1          == IF has THEN map
                       ELSE Append(map, [merchant |-> merchant, withdrawal |-> 0,
                                         fee |-> 0, percentAmount |-> 0, count |-> 0])
  IN  [i \in 1..Len(map1) |->
         IF map1[i].merchant = merchant
         THEN [merchant      |-> merchant,
               withdrawal    |-> map1[i].withdrawal + Micro(withdrawal),
               fee           |-> map1[i].fee + Micro(fee),
               percentAmount |-> map1[i].percentAmount + percentAmount,
               count         |-> map1[i].count + 1]
         ELSE map1[i]]

RECURSIVE SummaryMap(_, _, _)
SummaryMap(map, rows, percent) ==
  IF rows = <<>> THEN map
  ELSE SummaryMap(Accumulate(map, Head(rows), percent), Tail(rows), percent)

\* String(percent) of a number 0..100 given in hundredths.
NumberText(h) ==
  IF h % 100 = 0 THEN ToString(h \div 100)
  ELSE IF h % 10 = 0 THEN ToString(h \div 100) \o "." \o ToString((h % 100) \div 10)
  ELSE ToString(h \div 100) \o "." \o ToString((h % 100) \div 10) \o ToString(h % 10)

\* `${percent}% Amount`
PercentColumn(percent) == NumberText(percent) \o "% Amount"

\* x.toFixed(2) as the text it is, for an exact x in millionths.
ToFixed2Text(micro) ==
  LET h == ToFixed2(micro)
      a == IF h < 0 THEN -h ELSE h
  IN  Str((IF micro < 0 THEN << "-" >> ELSE <<>>)
          \o Pad(a \div 100, 1) \o << "." >> \o Pad(a % 100, 2))

\* A row of the Summary sheet.
SummaryRow(merchant, withdrawal, fee, percentAmount, count, percent) ==
  ("Merchant" :> merchant)
    @@ ("Total Withdrawal Amount" :> withdrawal)
    @@ ("Total Withdrawal Fees" :> fee)
    @@ (PercentColumn(percent) :> percentAmount)
    @@ ("Transaction Count" :> count)

\* Array.from(summaryMap.entries()).map(...): one row per entry, its sums
\* written with toFixed(2).
MerchantRows(map, percent) ==
  [i \in 1..Len(map) |->
     SummaryRow(map[i].merchant, ToFixed2Text(map[i].withdrawal),
                ToFixed2Text(map[i].fee), ToFixed2Text(map[i].percentAmount),
                Num(map[i].count * 100), percent)]

\* summaryData.reduce((sum, row) => sum + parseFloat(row[column]), 0), in
\* millionths.
RECURSIVE SumColumn(_, _)
SumColumn(rows, column) ==
  IF rows = <<>> THEN 0
  ELSE Micro(ParseFloat(Head(rows)[column]).n) + SumColumn(Tail(rows), column)

\* summaryData.reduce((sum, row) => sum + row['Transaction Count'], 0)
RECURSIVE SumCounts(_)
SumCounts(rows) ==
  IF rows = <<>> THEN 0
  ELSE Head(rows)["Transaction Count"].n + SumCounts(Tail(rows))

\* The totals row: the columns of the rows written so far, summed.
TotalsRow(rows, percent) ==
  SummaryRow(MerchantTotal,
             ToFixed2Text(SumColumn(rows, "Total Withdrawal Amount")),
             ToFixed2Text(SumColumn(rows, "Total Withdrawal Fees")),
             ToFixed2Text(SumColumn(rows, PercentColumn(percent))),
             Num(SumCounts(rows)), percent)

\* summaryData after summaryData.push(totals).
SummaryData(filteredData, percent) ==
  LET rows == MerchantRows(SummaryMap(<<>>, filteredData, percent), percent)
  IN  Append(rows, TotalsRow(rows, percent))

\* const { RowIndex, DateOnly, ...rest } = row
StripInternal(row) == [k \in DOMAIN row \ {"RowIndex", "DateOnly"} |-> row[k]]

\* The two sheets of the workbook /generate writes.
OutputBook(filteredData, summaryData) ==
  [Transactions |-> [i \in 1..Len(filteredData) |-> StripInternal(filteredData[i])],
   Summary      |-> summaryData]

\* `summary_${Date.now()}.xlsx`, named by its number.
OutputFilename(time) == time

NoFile == -1

\* A response of /generate, kept with the body it answers.
GenFailure(body, code, error) ==
  [body |-> body, status |-> code, error |-> error, summary |-> <<>>,
   file |-> NoFile, transactionCount |-> 0]

GenSuccess(body, summaryData, filename, n) ==
  [body |-> body, status |-> 200, error |-> "", summary |-> summaryData,
   file |-> filename, transactionCount |-> n]

NoGenResponse == GenFailure(Body(<<>>, Null, Null, Null), 0, "")

\* The checks of the body, in the handler's order; "" when it passes.
ValidationError(body, zone) ==
  LET percent == ParseFloat(body.percentage)
  IN  IF Len(body.selectedMerchants) = 0 THEN "NO_MERCHANTS"
      ELSE IF IsNaN(percent) \/ percent.n < 0 \/ percent.n > 10000
           THEN "INVALID_PERCENTAGE"
      ELSE IF \/ ~Truthy(body.startDate) \/ ~Truthy(body.endDate)
              \/ ~Truthy(DateParse(body.startDate, zone))
              \/ ~Truthy(DateParse(body.endDate, zone))
           THEN "INVALID_DATE"
      ELSE ""

\* The handler has no await: it runs from the body to the response, the
\* synchronous xlsx.writeFile included, in one step.
Generate(body) ==
  LET invalid      == ValidationError(body, tz)
      percent      == ParseFloat(body.percentage).n
      filteredData == FilterRows(fileData.processedData, body)
      summaryData  == SummaryData(filteredData, percent)
      filename     == OutputFilename(now)
  IN  /\ IF invalid # ""
         THEN /\ genRes' = GenFailure(body, 400, invalid)
              /\ UNCHANGED << outputDir, written, genSeen, genFiltered >>
         ELSE IF ~fileData.set
         THEN /\ genRes' = GenFailure(body, 400, "NO_DATA")
              /\ UNCHANGED << outputDir, written, genSeen, genFiltered >>
         ELSE IF Len(filteredData) = 0
         THEN /\ genRes' = GenFailure(body, 404, "NO_MATCHING_DATA")
              /\ genSeen' = fileData.processedData
              /\ genFiltered' = filteredData
              /\ UNCHANGED << outputDir, written >>
         ELSE /\ Len(written) < MaxGenerations
              /\ genRes' = GenSuccess(body, summaryData, filename, Len(filteredData))
              /\ genSeen' = fileData.processedData
              /\ genFiltered' = filteredData
              /\ outputDir' = (filename :> OutputBook(filteredData, summaryData))
                                @@ outputDir
              /\ written' = Append(written, filename)
     /\ UNCHANGED << tz, clientBook, clientBody, now, fileData, upl, uploadRes, ingested,
                     lastIngested, reported,
                  downloadVars, legacyVars >>

\* ------------------------------------------------------------------------
\* src/server.js: GET /download/:filename
\* ------------------------------------------------------------------------

\* The /download requests that may be in flight at once.
DownloadSlots == {"d1", "d2"}

IdleDownload == [pc |-> "idle", file |-> NoFile]

\* A response of /download: a JSON error, or the streamed file (200).
DownloadResponse(code, error, file) == [status |-> code, error |-> error, file |-> file]

NoDownloadResponse == DownloadResponse(0, "", NoFile)

\* The generation whose workbook the file of a name holds: the last
\* /generate that wrote that path.
LastWriter(filename) ==
  CHOOSE i \in 1..Len(written) :
    written[i] = filename /\ \A j \in (i + 1)..Len(written) : written[j] # filename

\* The name does not match /^summary_\d+\.xlsx$/: 400 INVALID_FILENAME.
DownloadInvalid(d) ==
  /\ dl[d].pc = "idle"
  /\ dlRes' = DownloadResponse(400, "INVALID_FILENAME", NoFile)
  /\ UNCHANGED << tz, clientBook, clientBody, now, fileData, upl, uploadRes, genRes,
                  outputDir, written, genSeen, genFiltered, ingested, lastIngested,
                  reported, dl, served, legacyVars >>

\* A request for summary_<filename>.xlsx arrives and waits for fs.access.
DownloadRequest(d, filename) ==
  /\ dl[d].pc = "idle"
  /\ dl' = [dl EXCEPT ![d] = [pc |-> "access", file |-> filename]]
  /\ UNCHANGED << tz, clientBook, clientBody, now, fileData, upl, uploadRes, genRes,
                  outputDir, written, genSeen, genFiltered, ingested, lastIngested,
                  reported, dlRes, served, legacyVars >>

\* fs.access settles: 404 FILE_NOT_FOUND when the file is not there, else the
\* headers are set and the read stream is created.
DownloadAccess(d) ==
  /\ dl[d].pc = "access"
  /\ IF dl[d].file \in DOMAIN outputDir
     THEN /\ dl' = [dl EXCEPT ![d].pc = "stream"]
          /\ UNCHANGED dlRes
     ELSE /\ dl' = [dl EXCEPT ![d] = IdleDownload]
          /\ dlRes' = DownloadResponse(404, "FILE_NOT_FOUND", dl[d].file)
  /\ UNCHANGED << tz, clientBook, clientBody, now, fileData, upl, uploadRes, genRes,
                  outputDir, written, genSeen, genFiltered, ingested, lastIngested,
                  reported, served, legacyVars >>

\* The stream opens the file and pipes it to the response up to 'end', after
\* which fs.unlink is started; or the file is gone by now, the stream emits
\* 'error', the fs.unlink of the missing file rejects (logged) and the
\* response ends with 500.
DownloadStream(d) ==
  /\ dl[d].pc = "stream"
  /\ IF dl[d].file \in DOMAIN outputDir
     THEN /\ dl' = [dl EXCEPT ![d].pc = "unlink"]
          /\ dlRes' = DownloadResponse(200, "", dl[d].file)
          /\ served' = IF LastWriter(dl[d].file) \in DOMAIN served
                       THEN [served EXCEPT ![LastWriter(dl[d].file)] = @ + 1]
                       ELSE (LastWriter(dl[d].file) :> 1) @@ served
     ELSE /\ dl' = [dl EXCEPT ![d] = IdleDownload]
          /\ dlRes' = DownloadResponse(500, "", dl[d].file)
          /\ UNCHANGED served
  /\ UNCHANGED << tz, clientBook, clientBody, now, fileData, upl, uploadRes, genRes,
                  outputDir, written, genSeen, genFiltered, ingested, lastIngested,
                  reported, legacyVars >>

\* The fs.unlink started at 'end' settles: the file is removed if it is still
\* there (a rejection is only logged).
DownloadUnlink(d) ==
  /\ dl[d].pc = "unlink"
  /\ outputDir' = [f \in DOMAIN outputDir \ {dl[d].file} |-> outputDir[f]]
  /\ dl' = [dl EXCEPT ![d] = IdleDownload]
  /\ UNCHANGED << tz, clientBook, clientBody, now, fileData, upl, uploadRes, genRes,
                  written, genSeen, genFiltered, ingested, lastIngested,
                  reported, dlRes, served, legacyVars >>

\* A millisecond passes.
Tick ==
  /\ now < MaxClock
  /\ now' = now + 1
  /\ UNCHANGED << tz, clientBook, clientBody, fileData, upl, uploadRes, genRes, outputDir,
                  written, genSeen, genFiltered, ingested, lastIngested, reported,
                  downloadVars, legacyVars >>

EmptyDir == [f \in {} |-> 0]

LegacyInit ==
  /\ globalData = <<>>
  /\ legacyRes = NoGenResponse
  /\ legacyOut = [writes |-> 0, book |-> [Transactions |-> <<>>, Summary |-> <<>>]]
  /\ legacySeen = <<>>
  /\ legacyFiltered = <<>>

ServerInit ==
  /\ now = 0
  /\ fileData = NoFileData
  /\ upl = [s \in Slots |-> IdleUpload]
  /\ uploadRes = NoResponse
  /\ genRes = NoGenResponse
  /\ outputDir = EmptyDir
  /\ written = <<>>
  /\ genSeen = <<>>
  /\ genFiltered = <<>>
  /\ ingested = {}
  /\ lastIngested = <<>>
  /\ reported = {}
  /\ dl = [d \in DownloadSlots |-> IdleDownload]
  /\ dlRes = NoDownloadResponse
  /\ served = EmptyDir

\* The server under interleaved requests.
Init ==
  /\ tz \in ConcurrentZones
  /\ clientBook = Sheet(<<>>)
  /\ clientBody = Body(<<>>, Null, Null, Null)
  /\ ServerInit
  /\ LegacyInit

Next ==
  \/ Tick
  \/ \E s \in Slots : UploadNoFile(s)
  \/ \E s \in Slots : UploadRequest(s)
  \/ \E s \in Slots : UploadAccessFails(s)
  \/ \E s \in Slots : \E book \in ConcurrentBooks : UploadRead(s, book)
  \/ \E s \in Slots : UploadRespond(s)
  \/ \E s \in Slots : UploadUnlinkFails(s)
  \/ \E body \in ConcurrentBodies : Generate(body)

Spec == Init /\ [][Next]_vars

\* One client, one file, one body: the pipeline on every sheet and body of
\* the catalogue, in every time zone.
InitEngine ==
  /\ tz \in TimeZones
  /\ clientBook \in Workbooks \cup {Unreadable, NoSheets}
  /\ clientBody \in GenerateBodies
  /\ ServerInit
  /\ LegacyInit

NextEngine ==
  \/ UploadRequest("u1")
  \/ UploadRead("u1", clientBook)
  \/ UploadRespond("u1")
  \/ UploadUnlinkFails("u1")
  \/ Generate(clientBody)

SpecEngine == InitEngine /\ [][NextEngine]_vars

\* The server with one uploading client and clients downloading what
\* /generate wrote.
NextDownload ==
  \/ UploadRequest("u1")
  \/ \E book \in DownloadBooks : UploadRead("u1", book)
  \/ UploadRespond("u1")
  \/ \E body \in ConcurrentBodies : Generate(body)
  \/ \E d \in DownloadSlots : DownloadInvalid(d)
  \/ \E d \in DownloadSlots : DownloadRequest(d, OutputFilename(now))
  \/ \E d \in DownloadSlots : DownloadAccess(d)
  \/ \E d \in DownloadSlots : DownloadStream(d)
  \/ \E d \in DownloadSlots : DownloadUnlink(d)

SpecDownload == Init /\ [][NextDownload]_vars

\* Whole serial numbers of a Date column: around zero, the first days, the
\* 1900 leap-day gap, and a day of 2023.
SerialNumbers == {-1, 0, 1, 2, 59, 60, 45000, 45001}

\* Sheets with the serial numbers n and n + 1 in their Date column.
SerialBooks ==
  { Sheet(<< Row(Num(n * 100), MerchantA, Num(50), Num(2)),
             Row(Num((n + 1) * 100), MerchantA, Num(50), Num(2)) >>) :
      n \in SerialNumbers }

\* One client uploading a sheet of serial dates, in every time zone.
InitSerial ==
  /\ tz \in TimeZones
  /\ clientBook \in SerialBooks
  /\ clientBody \in ConcurrentBodies
  /\ ServerInit
  /\ LegacyInit

SpecSerial == InitSerial /\ [][NextEngine]_vars

\* ------------------------------------------------------------------------
\* src/unnamed/part_000: POST /upload and POST /generate
\* ------------------------------------------------------------------------

\* extractDateOnly(value): a text YYYY-MM-DD, or ''.  The epoch of a serial
\* number is Date.UTC(1899, 11, 30); a text that starts DD-MM-YYYY is read
\* as that, any other by new Date(value).
extractDateOnly(value, zone) ==
  IF ~Truthy(value) THEN Str(<<>>)
  ELSE IF value.t = "num"
       THEN Str(IsoDate(DaysFromCivil(1899, 12, 30) * 1440 + SerialMinutes(value.n - 100)))
  ELSE IF /\ value.t = "str"
          /\ Len(value.s) >= 10
          /\ \A i \in {1, 2, 4, 5, 7, 8, 9, 10} : IsDigit(value.s[i])
          /\ value.s[3] = "-" /\ value.s[6] = "-"
       THEN LET parts == Split(Head(Split(value.s, " ")), "-")
                date  == JsDateParse(parts[3] \o << "-" >> \o parts[2]
                                       \o << "-" >> \o parts[1], zone)
            IN  IF IsNaN(date) THEN Str(<<>>) ELSE Str(IsoDate(date.n))
  ELSE IF value.t = "str"
       THEN IF IsNaN(JsDateParse(value.s, zone)) THEN Str(<<>>)
            ELSE Str(IsoDate(JsDateParse(value.s, zone).n))
  ELSE Str(IsoDate(value.n))

\* XLSX.utils.sheet_to_json(sheet) without defval: an empty cell gives the
\* row no property.
LegacyRawRow(row) == [k \in {c \in DOMAIN row : row[c] # Null} |-> row[k]]

\* globalData = rawData.map(row => ({ ...row, DateOnly: ... }))
LegacyProcessRows(rawData, zone) ==
  [i \in 1..Len(rawData) |->
     ("DateOnly" :> extractDateOnly(Cell(LegacyRawRow(rawData[i]), "Date"), zone))
       @@ LegacyRawRow(rawData[i])]

\* The handler is synchronous: the sheet is read and globalData assigned in
\* one step.  (The merchants it answers with are not kept.)
LegacyUpload(book) ==
  /\ book.kind = "sheet"
  /\ globalData' = LegacyProcessRows(book.rows, tz)
  /\ UNCHANGED << tz, clientBook, clientBody, serverVars, legacyRes, legacyOut,
                  legacySeen, legacyFiltered >>

\* A JavaScript number that may be NaN; v is exact, in millionths.
JsNumber(v) == [nan |-> FALSE, v |-> v]

JsNaN == [nan |-> TRUE, v |-> 0]

JsAdd(a, b) == IF a.nan \/ b.nan THEN JsNaN ELSE JsNumber(a.v + b.v)

\* x.toFixed(2), "NaN" for NaN.
JsToFixed2Text(x) ==
  IF x.nan THEN Str(<< "N", "a", "N" >>) ELSE ToFixed2Text(x.v)

\* parseFloat(cell || 0), in millionths.
LegacyAmount(cell) ==
  IF ~Truthy(cell) THEN JsNumber(0)
  ELSE IF IsNaN(ParseFloat(cell)) THEN JsNaN
  ELSE JsNumber(Micro(ParseFloat(cell).n))

\* withdrawal * percent / 100, percent in hundredths.
LegacyPercentAmount(cell, percent) ==
  IF LegacyAmount(cell).nan THEN JsNaN
  ELSE JsNumber((LegacyAmount(cell).v \div 10000) * percent)

\* The characters of a text as one string.
RECURSIVE Joined(_)
Joined(chars) == IF chars = <<>> THEN "" ELSE Head(chars) \o Joined(Tail(chars))

\* `${percentage}% Amount`: the body's percentage as the client wrote it.
LegacyPercentColumn(percentage) ==
  (IF percentage.t = "str" THEN Joined(percentage.s) ELSE NumberText(percentage.n))
    \o "% Amount"

\* row[`${percentage}% Amount`] = percentAmount.toFixed(2): the row object,
\* which globalData holds, gets the column.
WithPercentAmount(row, body, percent) ==
  (LegacyPercentColumn(body.percentage)
     :> JsToFixed2Text(LegacyPercentAmount(Cell(row, "Withdrawal Amount"), percent)))
    @@ row

\* new Date(startDate).toISOString().slice(0, 10)
LegacyNormalized(text) == IsoDate(DateParse(text, tz).n)

\* row.DateOnly >= normalizedStart && row.DateOnly <= normalizedEnd
InLegacyRange(row, normalizedStart, normalizedEnd) ==
  /\ StrGE(row["DateOnly"].s, normalizedStart)
  /\ StrLE(row["DateOnly"].s, normalizedEnd)

\* dateFiltered.filter(row => row['Merchant Name'] === merchant)
LegacyMerchantRows(data, merchant, normalizedStart, normalizedEnd) ==
  SelectSeq(data, LAMBDA row : /\ InLegacyRange(row, normalizedStart, normalizedEnd)
                               /\ Cell(row, "Merchant Name") = merchant)

\* totalW, totalF or totalP after rows.forEach, from the k-th row on.
RECURSIVE LegacySum(_, _, _, _)
LegacySum(rows, column, percent, k) ==
  IF k > Len(rows) THEN JsNumber(0)
  ELSE JsAdd(IF column = "percent"
             THEN LegacyPercentAmount(Cell(rows[k], "Withdrawal Amount"), percent)
             ELSE LegacyAmount(Cell(rows[k], column)),
             LegacySum(rows, column, percent, k + 1))

\* The three totals of each selected merchant, unrounded.
LegacyTotals(data, body, percent, normalizedStart, normalizedEnd) ==
  [k \in 1..Len(body.selectedMerchants) |->
     [w |-> LegacySum(LegacyMerchantRows(data, body.selectedMerchants[k],
                                         normalizedStart, normalizedEnd),
                      "Withdrawal Amount", percent, 1),
      f |-> LegacySum(LegacyMerchantRows(data, body.selectedMerchants[k],
                                         normalizedStart, normalizedEnd),
                      "Withdrawal Fees", percent, 1),
      p |-> LegacySum(LegacyMerchantRows(data, body.selectedMerchants[k],
                                         normalizedStart, normalizedEnd),
                      "percent", percent, 1)]]

\* grandW, grandF, grandP: the merchants' unrounded totals added up, from
\* the k-th merchant on.
RECURSIVE LegacyGrand(_, _)
LegacyGrand(totals, k) ==
  IF k > Len(totals) THEN [w |-> JsNumber(0), f |-> JsNumber(0), p |-> JsNumber(0)]
  ELSE [w |-> JsAdd(totals[k].w, LegacyGrand(totals, k + 1).w),
        f |-> JsAdd(totals[k].f, LegacyGrand(totals, k + 1).f),
        p |-> JsAdd(totals[k].p, LegacyGrand(totals, k + 1).p)]

\* A row of part_000's Summary sheet (it has no transaction count).
LegacySummaryRow(merchant, total, body) ==
  ("Merchant" :> merchant)
    @@ ("Total Withdrawal Amount" :> JsToFixed2Text(total.w))
    @@ ("Total Withdrawal Fees" :> JsToFixed2Text(total.f))
    @@ (LegacyPercentColumn(body.percentage) :> JsToFixed2Text(total.p))

\* summaryData: a row for each selected merchant, in the body's order,
\* whether it has rows or not, then the TOTAL row of the grand totals.
LegacySummary(body, totals) ==
  [k \in 1..Len(totals) |-> LegacySummaryRow(body.selectedMerchants[k], totals[k], body)]
    \o << LegacySummaryRow(MerchantTotal, LegacyGrand(totals, 1), body) >>

\* filteredData: for each selected merchant in turn, from the k-th on, its
\* rows in the range, each with its percentage column.
RECURSIVE LegacyFilteredData(_, _, _, _, _, _)
LegacyFilteredData(data, body, percent, normalizedStart, normalizedEnd, k) ==
  IF k > Len(body.selectedMerchants) THEN <<>>
  ELSE [i \in 1..Len(LegacyMerchantRows(data, body.selectedMerchants[k],
                                        normalizedStart, normalizedEnd)) |->
          WithPercentAmount(LegacyMerchantRows(data, body.selectedMerchants[k],
                                               normalizedStart, normalizedEnd)[i],
                            body, percent)]
       \o LegacyFilteredData(data, body, percent, normalizedStart, normalizedEnd, k + 1)

\* globalData after the loop: every row the loop visited has the column.
LegacyMutatedData(data, body, percent, normalizedStart, normalizedEnd) ==
  [i \in 1..Len(data) |->
     IF /\ InLegacyRange(data[i], normalizedStart, normalizedEnd)
        /\ Includes(body.selectedMerchants, Cell(data[i], "Merchant Name"))
     THEN WithPercentAmount(data[i], body, percent)
     ELSE data[i]]

\* The two sheets part_000 writes; the rows keep their DateOnly.
LegacyOutputBook(filteredData, summaryData) ==
  [Transactions |-> filteredData, Summary |-> summaryData]

\* path.join(outputDir, 'filtered_output.xlsx'), named by a number no
\* summary_<time>.xlsx has.
LegacyOutputFilename == -2

\* if (filteredData.length === 0 && summaryData.length === 0): summaryData
\* holds the TOTAL row by then.
LegacyNothingFound(filteredData, summaryData) ==
  Len(filteredData) = 0 /\ Len(summaryData) = 0

\* The response and the effects of a body that passed the two checks.
LegacySummarize(body, percent, normalizedStart, normalizedEnd, totals) ==
  \E filteredData \in {LegacyFilteredData(globalData, body, percent, normalizedStart,
                                          normalizedEnd, 1)} :
    \E summaryData \in {LegacySummary(body, totals)} :
      /\ legacySeen' = globalData
      /\ legacyFiltered' = filteredData
      /\ globalData' = LegacyMutatedData(globalData, body, percent, normalizedStart,
                                         normalizedEnd)
      /\ IF LegacyNothingFound(filteredData, summaryData)
         THEN /\ legacyRes' = GenFailure(body, 404, "No data found in range")
              /\ UNCHANGED legacyOut
         ELSE /\ legacyOut.writes < MaxGenerations
              /\ legacyRes' = GenSuccess(body, summaryData, LegacyOutputFilename,
                                         Len(filteredData))
              /\ legacyOut' = [writes |-> legacyOut.writes + 1,
                               book   |-> LegacyOutputBook(filteredData, summaryData)]

\* The handler has no await before its response.  The bodies hold dates
\* new Date() can read, so toISOString() does not throw.
LegacyGenerate(body) ==
  /\ IF \/ ~Truthy(body.startDate) \/ ~Truthy(body.endDate)
        \/ ~Truthy(body.percentage)   \* selectedMerchants is an array: truthy
     THEN /\ legacyRes' = GenFailure(body, 400, "Missing fields")
          /\ UNCHANGED << globalData, legacyOut, legacySeen, legacyFiltered >>
     ELSE IF IsNaN(ParseFloat(body.percentage))
     THEN /\ legacyRes' = GenFailure(body, 400, "Invalid percentage")
          /\ UNCHANGED << globalData, legacyOut, legacySeen, legacyFiltered >>
     ELSE /\ ~IsNaN(DateParse(body.startDate, tz))
          /\ ~IsNaN(DateParse(body.endDate, tz))
          /\ \E percent \in {ParseFloat(body.percentage).n},
                normalizedStart \in {LegacyNormalized(body.startDate)},
                normalizedEnd \in {LegacyNormalized(body.endDate)} :
               \E totals \in {LegacyTotals(globalData, body, percent, normalizedStart,
                                           normalizedEnd)} :
                 LegacySummarize(body, percent, normalizedStart, normalizedEnd, totals)
  /\ UNCHANGED << tz, clientBook, clientBody, serverVars >>

\* part_000 with one client, one file, one body.
InitLegacy ==
  /\ tz \in TimeZones
  /\ clientBook \in Workbooks
  /\ clientBody \in GenerateBodies
  /\ ServerInit
  /\ LegacyInit

NextLegacy ==
  \/ LegacyUpload(clientBook)
  \/ LegacyGenerate(clientBody)

SpecLegacy == InitLegacy /\ [][NextLegacy]_vars

\* ------------------------------------------------------------------------
\* Properties of src/server.js
\* ------------------------------------------------------------------------

\* rows is the whole sheet raw, processed: as many records, in the sheet's
\* order, each holding its row's cells.
IsWholeUpload(rows, raw) ==
  /\ Len(rows) = Len(raw)
  /\ \A i \in 1..Len(raw) : StripInternal(rows[i]) = raw[i]

\* C1: under any interleaving of /upload and /generate, the rows a
\* /generate filters are the complete record sequence of one single upload,
\* never a mix of two uploads and never a part of one.
GenerateSeesOneWholeUpload ==
  genSeen # <<>> => \E raw \in ingested : IsWholeUpload(genSeen, raw)

\* C1, witness: after two different uploads, a /generate has answered from
\* the new dataset while the upload that stored it is still waiting to
\* delete its file.
GenerateDuringUpload ==
  /\ Cardinality(ingested) = 2
  /\ genRes.status = 200
  /\ genSeen = fileData.processedData
  /\ \E s \in Slots : upl[s].pc = "unlink" /\ upl[s].pending.status = 200

\* C2: any two /generate requests that write a workbook write to different
\* paths.
OutputPathsDistinct ==
  \A i, j \in 1..Len(written) : i # j => written[i] # written[j]

DayOfIso(text) ==
  DaysFromCivil(DigitsValue(SubSeq(text, 1, 4)), DigitsValue(SubSeq(text, 6, 7)),
                DigitsValue(SubSeq(text, 9, 10)))

\* The record is dated, its day is within the body's range, both ends
\* included, and its merchant is one of the selected.
InRangeAndSelected(row, body) ==
  /\ row["DateOnly"] # Null
  /\ DayOfIso(body.startDate.s) <= DayOfIso(row["DateOnly"].s)
  /\ DayOfIso(row["DateOnly"].s) <= DayOfIso(body.endDate.s)
  /\ row["Merchant Name"] \in {body.selectedMerchants[k] :
                                 k \in 1..Len(body.selectedMerchants)}

\* A /generate that went as far as filtering.
Filtered == genRes.status \in {200, 404}

\* C4: a record is in the filtered set if and only if it is dated, its date
\* is within [startDate, endDate] and its merchant is selected.
FilterIsRangeAndMerchants ==
  Filtered =>
    genFiltered = SelectSeq(genSeen, LAMBDA row : InRangeAndSelected(row, genRes.body))

\* C4, witness: a record dated endDate is in the filtered set, and a
\* record of a selected merchant dated the day after is not.
EndDateIncludedNextDayExcluded ==
  /\ genRes.status = 200
  /\ \E i \in 1..Len(genFiltered) :
       genFiltered[i]["DateOnly"] = genRes.body.endDate
  /\ \E i \in 1..Len(genSeen) :
       /\ genSeen[i]["DateOnly"] # Null
       /\ DayOfIso(genSeen[i]["DateOnly"].s) = DayOfIso(genRes.body.endDate.s) + 1
       /\ Includes(genRes.body.selectedMerchants, genSeen[i]["Merchant Name"])
       /\ ~Includes(genFiltered, genSeen[i])

InvalidParameterErrors == {"NO_MERCHANTS", "INVALID_PERCENTAGE", "INVALID_DATE"}

\* C6: /generate answers a body whose startDate is after its endDate with
\* an invalid-parameter error, whatever dataset is held.
StartAfterEndIsInvalidParameter ==
  ( /\ genRes.status # 0
    /\ genRes.error # "NO_DATA"
    /\ genRes.body.startDate.t = "str"
    /\ genRes.body.endDate.t = "str"
    /\ StrLess(genRes.body.endDate.s, genRes.body.startDate.s) )
  => genRes.error \in InvalidParameterErrors

\* C7: the merchants a successful /upload returns are strings, none empty,
\* each equal to its trimmed form, no two equal, in ascending order.
MerchantsTrimmedDistinctSorted ==
  uploadRes.status = 200 =>
    LET m == uploadRes.merchants
    IN  /\ \A i \in 1..Len(m) :
             m[i].t = "str" /\ m[i].s # <<>> /\ Trim(m[i].s) = m[i].s
        /\ \A i, j \in 1..Len(m) : i < j => StrLess(m[i].s, m[j].s)

\* C10: a successful /generate returns exactly one row whose Merchant is
\* TOTAL, that row is the last, and the rows before it have distinct
\* merchants.
ExactlyOneTotalRowLast ==
  genRes.status = 200 =>
    LET rows == genRes.summary
    IN  /\ Len(rows) >= 2
        /\ rows[Len(rows)]["Merchant"] = MerchantTotal
        /\ \A i \in 1..(Len(rows) - 1) : rows[i]["Merchant"] # MerchantTotal
        /\ \A i, j \in 1..(Len(rows) - 1) :
             i # j => rows[i]["Merchant"] # rows[j]["Merchant"]

\* ------------------------------------------------------------------------
\* Properties of both servers' /generate
\* ------------------------------------------------------------------------

\* The sum, as text with two decimals, of a column over the rows of a
\* summary but the last, each read back from its rounded text.
RECURSIVE SumOfRounded(_, _, _)
SumOfRounded(summary, column, k) ==
  IF k >= Len(summary) THEN JsNumber(0)
  ELSE JsAdd(IF IsNaN(ParseFloat(summary[k][column])) THEN JsNaN
             ELSE JsNumber(Micro(ParseFloat(summary[k][column]).n)),
             SumOfRounded(summary, column, k + 1))

TotalIsSumOfRounded(res) ==
  res.status = 200 =>
    \A column \in DOMAIN res.summary[Len(res.summary)]
                    \ {"Merchant", "Transaction Count"} :
      res.summary[Len(res.summary)][column]
        = JsToFixed2Text(SumOfRounded(res.summary, column, 1))

\* C3: each monetary field of the TOTAL row is the sum of the per-merchant
\* rows' already rounded values, rounded again to two decimals.
TotalsSumRoundedMerchantRows ==
  TotalIsSumOfRounded(genRes) /\ TotalIsSumOfRounded(legacyRes)

\* C5: a generation whose filtered set is empty answers with the
\* no-matching-data error, builds no summary row and writes no workbook.
EmptyFilterIsNoMatchingData ==
  /\ (Filtered /\ genFiltered = <<>>) =>
       /\ genRes.status = 404 /\ genRes.error = "NO_MATCHING_DATA"
       /\ genRes.summary = <<>> /\ genRes.file = NoFile
  /\ (legacyRes.status \notin {0, 400} /\ legacyFiltered = <<>>) =>
       /\ legacyRes.status = 404
       /\ legacyRes.summary = <<>> /\ legacyRes.file = NoFile

\* C9: a generation leaves the held dataset as it found it, and a second one
\* with the same body on the same dataset gives the same filtered rows and
\* the same summary.
GenerateIsPure ==
  [][/\ (genRes' # genRes \/ written' # written) =>
          /\ fileData' = fileData
          /\ (genRes'.body = genRes.body /\ genSeen' = genSeen /\ genRes.status = 200)
               => (genRes'.summary = genRes.summary /\ genFiltered' = genFiltered)
     /\ (legacyRes' # legacyRes \/ legacyOut' # legacyOut) =>
          /\ globalData' = globalData
          /\ (legacyRes'.body = legacyRes.body /\ legacySeen' = legacySeen
                /\ legacyRes.status = 200)
               => (legacyRes'.summary = legacyRes.summary
                     /\ legacyFiltered' = legacyFiltered)]_vars

\* The sheet's own columns.
RawColumns == {"Date", "Merchant Name", "Withdrawal Amount", "Withdrawal Fees"}

\* The exported rows are rows of the dataset, in the dataset's order.
InDatasetOrder(exported, data) ==
  \E f \in [1..Len(exported) -> 1..Len(data)] :
    /\ \A i, j \in 1..Len(exported) : i < j => f[i] < f[j]
    /\ \A i \in 1..Len(exported) :
         \A c \in RawColumns : Cell(exported[i], c) = Cell(data[f[i]], c)

\* The row has the field '<rate>% Amount', its amount * rate / 100 with two
\* decimals.
HasPercentAmount(row, percentage) ==
  /\ PercentColumn(ParseFloat(percentage).n) \in DOMAIN row
  /\ row[PercentColumn(ParseFloat(percentage).n)]
       = ToFixed2Text(ParseFloatOrZero(Cell(row, "Withdrawal Amount"))
                        * ParseFloat(percentage).n)

ExportOrderedWithAmount(res, exported, data) ==
  res.status = 200 =>
    /\ InDatasetOrder(exported, data)
    /\ \A i \in 1..Len(exported) : HasPercentAmount(exported[i], res.body.percentage)

\* C11: the rows a successful /generate exports are in the dataset's order
\* and each has the field '<rate>% Amount' = amount * rate / 100, rounded to
\* two decimals.
ExportedRowsOrderedWithPercentAmount ==
  /\ (genRes.status = 200 /\ genRes.file \in DOMAIN outputDir) =>
       ExportOrderedWithAmount(genRes, outputDir[genRes.file].Transactions, genSeen)
  /\ ExportOrderedWithAmount(legacyRes, legacyOut.book.Transactions, legacySeen)

\* C12: every record /upload holds has, under every column name of its raw
\* row, the raw row's value; it differs from the raw row only by the added
\* RowIndex and DateOnly.
RawFieldsKept ==
  fileData.set =>
    /\ Len(fileData.processedData) = Len(lastIngested)
    /\ \A i \in 1..Len(lastIngested) :
         /\ DOMAIN fileData.processedData[i]
              = DOMAIN lastIngested[i] \cup {"RowIndex", "DateOnly"}
         /\ \A c \in DOMAIN lastIngested[i] :
              fileData.processedData[i][c] = lastIngested[i][c]

\* The whole number of a numeric cell.
SerialOf(cell) == cell.n \div 100

\* The date n - 1 days after 1899-12-30, as YYYY-MM-DD.
DaysAfterEpoch(n) == Str(IsoDate((DaysFromCivil(1899, 12, 30) + n - 1) * 1440))

\* C13: the DateOnly of a whole serial number n is the date n - 1 days after
\* 1899-12-30, never null, and that of n + 1 is the next calendar day.
SerialDatesEpochCorrect ==
  fileData.set =>
    /\ \A i \in 1..Len(lastIngested) :
         lastIngested[i]["Date"].t = "num" =>
           fileData.processedData[i]["DateOnly"]
             = DaysAfterEpoch(SerialOf(lastIngested[i]["Date"]))
    /\ \A i, j \in 1..Len(lastIngested) :
         ( /\ lastIngested[i]["Date"].t = "num" /\ lastIngested[j]["Date"].t = "num"
           /\ SerialOf(lastIngested[j]["Date"]) = SerialOf(lastIngested[i]["Date"]) + 1 )
         => /\ fileData.processedData[i]["DateOnly"] # Null
            /\ fileData.processedData[j]["DateOnly"] # Null
            /\ DayOfIso(fileData.processedData[j]["DateOnly"].s)
                 = DayOfIso(fileData.processedData[i]["DateOnly"].s) + 1

\* A text of digits, a point and two digits: a non-negative amount written
\* with two decimals.
IsNonNegativeAmount(v) ==
  /\ v.t = "str"
  /\ Len(v.s) >= 4
  /\ AllDigits(SubSeq(v.s, 1, Len(v.s) - 3))
  /\ v.s[Len(v.s) - 2] = "."
  /\ AllDigits(SubSeq(v.s, Len(v.s) - 1, Len(v.s)))

\* C14: in a successful /generate, every per-merchant row has non-negative
\* two-decimal sums of withdrawal, fee and percentage amount, and a count
\* that is a positive whole number.
MerchantRowsNonNegative ==
  genRes.status = 200 =>
    \A i \in 1..(Len(genRes.summary) - 1) :
      /\ \A c \in DOMAIN genRes.summary[i] \ {"Merchant", "Transaction Count"} :
           IsNonNegativeAmount(genRes.summary[i][c])
      /\ genRes.summary[i]["Transaction Count"].t = "num"
      /\ genRes.summary[i]["Transaction Count"].n % 100 = 0
      /\ genRes.summary[i]["Transaction Count"].n >= 100

\* The merchants of the rows of a summary but the last, in their order.
MerchantsOf(summary) == [i \in 1..(Len(summary) - 1) |-> summary[i]["Merchant"]]

\* The selected merchants that have a row among the filtered, in the order
\* the body lists them.
SelectedWithRows(body, filtered) ==
  SelectSeq(body.selectedMerchants,
            LAMBDA m : \E i \in 1..Len(filtered) : Cell(filtered[i], "Merchant Name") = m)

\* C15: the per-merchant rows of a successful /generate are the selected
\* merchants that have a filtered row, each once, in the order of
\* selectedMerchants; a selected merchant without a row has no row.
MerchantRowsInSelectionOrder ==
  /\ genRes.status = 200 =>
       MerchantsOf(genRes.summary) = SelectedWithRows(genRes.body, genFiltered)
  /\ legacyRes.status = 200 =>
       MerchantsOf(legacyRes.summary) = SelectedWithRows(legacyRes.body, legacyFiltered)

\* An upload has put its rows in app.locals.fileData and not answered yet.
UploadAnswerPending == \E s \in Slots : upl[s].pc = "unlink" /\ upl[s].stored # <<>>

\* C16: an upload that answers with a failure leaves the held dataset as it
\* was, so whenever no upload is between storing and answering, a dataset
\* that is held is the dataset of an upload that was answered with success.
HeldDatasetWasReported ==
  (fileData.set /\ ~UploadAnswerPending) => fileData.processedData \in reported

\* A generation's file is there to be downloaded.
FileOfGenerationExists(i) ==
  written[i] \in DOMAIN outputDir /\ LastWriter(written[i]) = i

\* C17: a generated file is streamed to at most one /download request, and
\* once a download of it is over (streamed and unlinked) the file is gone.
DownloadedAtMostOnce ==
  \A i \in DOMAIN served :
    /\ served[i] <= 1
    /\ (\A d \in DownloadSlots : dl[d].pc = "idle") => ~FileOfGenerationExists(i)

====
